---- MODULE Spec2Model ----
(***************************************************************************)
(* A model of python3-cpp-validator: the lexer `tokenize`                  *)
(* (src/src/tokenize.py) and the scope validator `validate_tokens`         *)
(* (src/main.py).  Source text and token texts are sequences of            *)
(* one-character strings; cursor offsets are 0-based as in the source.     *)
(***************************************************************************)
EXTENDS Integers, Sequences, FiniteSets, TLC

VARIABLES
    code,         \* tokenize: the newline-normalised source text
    i,            \* tokenize: cursor offset (0-based)
    lineno,       \* tokenize: current line number
    linestart,    \* tokenize: offset of the first character of the line
    tokens,       \* tokenize: the token list built so far
    starts,       \* history: the source offset at which each token was cut
    pc,           \* tokenize: "scan" | "comment" | "done" | "failed"
    lexerr,       \* tokenize: what the raised exception carries (<<>> if none)
    vtokens,      \* validate_tokens: the tokens consumed so far by the loop
    rules,        \* validate_tokens: the active rule list
    scope_level,  \* validate_tokens: the depth counter
    errors,       \* validate_tokens: the error list
    vpc           \* validate_tokens: "loop" | "returned" | "raised"

lexvars == <<code, i, lineno, linestart, tokens, starts, pc, lexerr>>
valvars == <<vtokens, rules, scope_level, errors, vpc>>
vars == <<code, i, lineno, linestart, tokens, starts, pc, lexerr,
          vtokens, rules, scope_level, errors, vpc>>

\* ------------------------------------------------------------------ bounds

\* longest token sequence fed to validate_tokens
MaxTokens == 5
\* longest source text given to tokenize (comment/string alphabet)
MaxCode == 4
\* longest source text given to tokenize (operator alphabet)
MaxOpCode == 5
\* longest source text given to tokenize (string alphabet)
MaxStrCode == 6

\* ------------------------------------------------------- character classes

Letters ==
    {"a","b","c","d","e","f","g","h","i","j","k","l","m","n","o","p","q","r",
     "s","t","u","v","w","x","y","z","A","B","C","D","E","F","G","H","I","J",
     "K","L","M","N","O","P","Q","R","S","T","U","V","W","X","Y","Z"}
Digits == {"0","1","2","3","4","5","6","7","8","9"}
\* \w
WordChars == Letters \cup Digits \cup {"_"}
\* \s
SpaceChars == {" ", "\t", "\n", "\r", "\f"}
\* [ \t]
BlankChars == {" ", "\t"}

\* Length of the longest run of characters of S in s starting at index p.
RECURSIVE RunIn(_, _, _)
RunIn(s, p, S) ==
    IF p <= Len(s) /\ s[p] \in S THEN 1 + RunIn(s, p + 1, S) ELSE 0

\* Length of the longest run of characters not in S in s starting at index p.
RECURSIVE RunNotIn(_, _, _)
RunNotIn(s, p, S) ==
    IF p <= Len(s) /\ s[p] \notin S THEN 1 + RunNotIn(s, p + 1, S) ELSE 0

\* ------------------------------------------------------------------ tokens

Token(tag, str, ln, col) ==
    [tag |-> tag, str |-> str, lineno |-> ln, columnno |-> col]

\* ======================================================= validate_tokens ==

ValidateRule(level, tag, str, get_message) ==
    [scope_level |-> level, tag |-> tag, str |-> str, get_message |-> get_message]

\* f"Variable '{token.str}' cannot be used."
unused_message(token) == <<"Variable '", token.str, "' cannot be used.">>

\* rule.get_message(token): the only message builder is unused_message
GetMessage(rule, token) ==
    CASE rule.get_message = "unused_message" -> unused_message(token)

ValidateError(message, token) == [message |-> message, token |-> token]

\* re.split(r'\s+', s, 1): cut s at its first run of whitespace; one piece
\* when s holds no whitespace, two otherwise.
SplitCommand(s) ==
    IF \E p \in 1..Len(s) : s[p] \in SpaceChars
    THEN LET p == CHOOSE q \in 1..Len(s) :
                      /\ s[q] \in SpaceChars
                      /\ \A r \in 1..(q - 1) : s[r] \notin SpaceChars
         IN  <<SubSeq(s, 1, p - 1), SubSeq(s, p + RunIn(s, p, SpaceChars), Len(s))>>
    ELSE <<s>>

\* re.split(r'\s*,\s*', s) from piece start `from`, scanning at index p: the
\* leftmost match at p is the whitespace run at p, a comma, and the
\* whitespace run after it.
RECURSIVE SplitArgsFrom(_, _, _)
SplitArgsFrom(s, from, p) ==
    IF p > Len(s) THEN <<SubSeq(s, from, Len(s))>>
    ELSE LET q == p + RunIn(s, p, SpaceChars) IN
         IF q <= Len(s) /\ s[q] = ","
         THEN LET e == q + 1 + RunIn(s, q + 1, SpaceChars) IN
              <<SubSeq(s, from, p - 1)>> \o SplitArgsFrom(s, e, e)
         ELSE SplitArgsFrom(s, from, p + 1)

SplitArgs(s) == SplitArgsFrom(s, 1, 1)

UnusedName == <<"u","n","u","s","e","d">>

\* `for arg in args: rule = ValidateRule(...)`: the value of `rule` after
\* the loop, as a sequence of zero (None) or one rule.  Every iteration
\* overwrites `rule`.
RECURSIVE RuleAfterLoop(_, _, _)
RuleAfterLoop(args, level, rule) ==
    IF args = <<>> THEN rule
    ELSE RuleAfterLoop(Tail(args), level,
                       <<ValidateRule(level, "id", Head(args), "unused_message")>>)

\* The directive branch: `name, args = re.split(...)` raises ValueError unless
\* the split gives exactly two pieces.
DirectiveRaises(token) == Len(SplitCommand(token.str)) # 2

\* The directive branch when it does not raise: the rules appended.
DirectiveRules(level, token) ==
    LET parts == SplitCommand(token.str)
        name  == parts[1]
        args  == SplitArgs(parts[2])
    IN  IF name = UnusedName THEN RuleAfterLoop(args, level, <<>>) ELSE <<>>

\* A purge that compares with `<`: it also drops the rules of the depth that
\* stays open.
RECURSIVE PurgeRulesStrict(_, _)
PurgeRulesStrict(rs, level) ==
    IF rs = <<>> THEN <<>>
    ELSE (IF Head(rs).scope_level < level THEN <<Head(rs)>> ELSE <<>>)
         \o PurgeRulesStrict(Tail(rs), level)

\* A `}` branch that forgets to filter the rule list.
PurgeRulesKeepAll(rs, level) == rs

\* rules = [r for r in rules if r.scope_level <= scope_level]
RECURSIVE PurgeRules(_, _)
PurgeRules(rs, level) ==
    IF rs = <<>> THEN <<>>
    ELSE (IF Head(rs).scope_level <= level THEN <<Head(rs)>> ELSE <<>>)
         \o PurgeRules(Tail(rs), level)

\* A matching loop that stops at the first rule that matches (a `break`).
RECURSIVE MatchErrorsFirstOnly(_, _)
MatchErrorsFirstOnly(rs, token) ==
    IF rs = <<>> THEN <<>>
    ELSE IF token.tag = Head(rs).tag /\ token.str = Head(rs).str
         THEN <<ValidateError(GetMessage(Head(rs), token), token)>>
         ELSE MatchErrorsFirstOnly(Tail(rs), token)

\* A matching loop that compares the text only, not the tag.
RECURSIVE MatchErrorsAnyTag(_, _)
MatchErrorsAnyTag(rs, token) ==
    IF rs = <<>> THEN <<>>
    ELSE (IF token.str = Head(rs).str
          THEN <<ValidateError(GetMessage(Head(rs), token), token)>>
          ELSE <<>>)
         \o MatchErrorsAnyTag(Tail(rs), token)

\* `for rule in rules: if token.tag == rule.tag and token.str == rule.str:`
\* the errors appended for one token, in rule-list order.
RECURSIVE MatchErrors(_, _)
MatchErrors(rs, token) ==
    IF rs = <<>> THEN <<>>
    ELSE (IF token.tag = Head(rs).tag /\ token.str = Head(rs).str
          THEN <<ValidateError(GetMessage(Head(rs), token), token)>>
          ELSE <<>>)
         \o MatchErrors(Tail(rs), token)

\* The state of validate_tokens before its loop.
ValidateStart ==
    [rules |-> <<>>, scope_level |-> 0, errors |-> <<>>, vpc |-> "loop"]

\* One iteration of `for token in tokens`.
ValidateToken(st, token) ==
    IF token.str = <<"{">>
    THEN [st EXCEPT !.scope_level = st.scope_level + 1]
    ELSE IF token.str = <<"}">>
    THEN [st EXCEPT !.scope_level = st.scope_level - 1,
                    !.rules = PurgeRules(st.rules, st.scope_level - 1)]
    ELSE IF token.tag = "vd"
    THEN IF DirectiveRaises(token)
         THEN [st EXCEPT !.vpc = "raised"]
         ELSE [st EXCEPT !.rules = st.rules \o DirectiveRules(st.scope_level, token)]
    ELSE [st EXCEPT !.errors = st.errors \o MatchErrors(st.rules, token)]

\* validate_tokens on a whole token sequence, from state st.
RECURSIVE ValidateRun(_, _)
ValidateRun(st, toks) ==
    IF st.vpc = "raised" THEN st
    ELSE IF toks = <<>> THEN [st EXCEPT !.vpc = "returned"]
    ELSE ValidateRun(ValidateToken(st, Head(toks)), Tail(toks))

validate_tokens(toks) == ValidateRun(ValidateStart, toks)

\* The (tag, text) pairs of the tokens fed to validate_tokens.
TokenKinds ==
    { <<"mark", <<"{">>>>, <<"mark", <<"}">>>>,
      <<"id", <<"x">>>>, <<"id", <<"y">>>>,
      <<"vd", UnusedName \o <<" ", "x">>>>,
      <<"vd", UnusedName \o <<" ", "y">>>>,
      <<"vd", UnusedName \o <<" ", "x", ",", " ", "y">>>>,
      <<"vd", <<"f", "o", "o", " ", "x">>>>,
      <<"vd", UnusedName>>,
      <<"vd", <<"{">>>>, <<"vd", <<"}">>>> }

LexIdle ==
    /\ code = <<>> /\ i = 0 /\ lineno = 1 /\ linestart = 0
    /\ tokens = <<>> /\ starts = <<>> /\ pc = "done" /\ lexerr = <<>>

InitValidate ==
    /\ LexIdle
    /\ vtokens = <<>>
    /\ rules = ValidateStart.rules
    /\ scope_level = ValidateStart.scope_level
    /\ errors = ValidateStart.errors
    /\ vpc = ValidateStart.vpc

\* The loop body runs on `token`, the next token of the argument.
ValidateConsume(token) ==
    LET st == ValidateToken([rules |-> rules, scope_level |-> scope_level,
                             errors |-> errors, vpc |-> vpc], token)
    IN  /\ vtokens' = Append(vtokens, token)
        /\ rules' = st.rules
        /\ scope_level' = st.scope_level
        /\ errors' = st.errors
        /\ vpc' = st.vpc

\* The loop of validate_tokens consumes the next token of its argument; the
\* k-th token of the sequence stands on line k, column 1.
ValidateStep ==
    /\ vpc = "loop"
    /\ Len(vtokens) < MaxTokens
    /\ \E kind \in TokenKinds :
         ValidateConsume(Token(kind[1], kind[2], Len(vtokens) + 1, 1))
    /\ UNCHANGED lexvars

\* The token sequence ends: `return errors`.
ValidateReturn ==
    /\ vpc = "loop"
    /\ vpc' = "returned"
    /\ UNCHANGED <<vtokens, rules, scope_level, errors>>
    /\ UNCHANGED lexvars

NextValidate == ValidateStep \/ ValidateReturn

SpecValidate == InitValidate /\ [][NextValidate]_vars

\* Token sequences for the claims on tags and on unknown directives: a
\* string-tagged and a preprocessor-tagged token with the text of an
\* identifier, and directives with another command name.
TagTokenKinds ==
    { <<"mark", <<"{">>>>, <<"mark", <<"}">>>>,
      <<"id", <<"x">>>>, <<"str", <<"x">>>>, <<"pp", <<"x">>>>,
      <<"vd", UnusedName \o <<" ", "x">>>>,
      <<"vd", <<"f", "o", "o">>>>,
      <<"vd", <<"f", "o", "o", " ", "x">>>>,
      <<"vd", <<" ", "f", "o", "o", " ", "x">>>> }

ValidateTagStep ==
    /\ vpc = "loop"
    /\ Len(vtokens) < MaxTokens
    /\ \E kind \in TagTokenKinds :
         ValidateConsume(Token(kind[1], kind[2], Len(vtokens) + 1, 1))
    /\ UNCHANGED lexvars

NextValidateTags == ValidateTagStep \/ ValidateReturn

SpecValidateTags == InitValidate /\ [][NextValidateTags]_vars

\* ============================================================== tokenize ==

\* code.replace('\r\n', '\n')
RECURSIVE Normalize(_)
Normalize(src) ==
    IF src = <<>> THEN <<>>
    ELSE IF Len(src) >= 2 /\ src[1] = "\r" /\ src[2] = "\n"
    THEN <<"\n">> \o Normalize(SubSeq(src, 3, Len(src)))
    ELSE <<src[1]>> \o Normalize(Tail(src))

\* Each matcher gives the length of re.match(pattern, s), 0 for no match
\* (no pattern matches the empty text).

\* #[^\n]+
MatchPreprocessor(s) ==
    IF Len(s) >= 2 /\ s[1] = "#" /\ s[2] # "\n"
    THEN 1 + RunNotIn(s, 2, {"\n"}) ELSE 0

\* //![^\n]+
MatchDirective(s) ==
    IF Len(s) >= 4 /\ SubSeq(s, 1, 3) = <<"/", "/", "!">> /\ s[4] # "\n"
    THEN 3 + RunNotIn(s, 4, {"\n"}) ELSE 0

\* //[^\n]+
MatchLineComment(s) ==
    IF Len(s) >= 3 /\ SubSeq(s, 1, 2) = <<"/", "/">> /\ s[3] # "\n"
    THEN 2 + RunNotIn(s, 3, {"\n"}) ELSE 0

\* /\*
MatchBlockOpen(s) ==
    IF Len(s) >= 2 /\ SubSeq(s, 1, 2) = <<"/", "*">> THEN 2 ELSE 0

\* \*/
MatchBlockClose(s) ==
    IF Len(s) >= 2 /\ SubSeq(s, 1, 2) = <<"*", "/">> THEN 2 ELSE 0

\* [ \t]+
MatchBlank(s) == RunIn(s, 1, BlankChars)

\* [_a-zA-Z]\w*
MatchIdentifier(s) ==
    IF Len(s) >= 1 /\ s[1] \in Letters \cup {"_"}
    THEN 1 + RunIn(s, 2, WordChars) ELSE 0

\* \d+
MatchNumber(s) == RunIn(s, 1, Digits)

\* (?:[^"]|\\.)*" from index p: the index of the closing quote the regex
\* engine settles on, 0 when there is none.  Each round of the star tries
\* [^"] first, then \\. , and only then leaves the star for the quote.
RECURSIVE StringClose(_, _)
StringClose(s, p) ==
    LET viaAny == IF p <= Len(s) /\ s[p] # "\""
                  THEN StringClose(s, p + 1) ELSE 0
        viaEscape == IF p + 1 <= Len(s) /\ s[p] = "\\" /\ s[p + 1] # "\n"
                     THEN StringClose(s, p + 2) ELSE 0
        quote == IF p <= Len(s) /\ s[p] = "\"" THEN p ELSE 0
    IN  IF viaAny # 0 THEN viaAny
        ELSE IF viaEscape # 0 THEN viaEscape
        ELSE quote

\* "(?:[^"]|\\.)*"
MatchString(s) ==
    IF Len(s) >= 1 /\ s[1] = "\"" THEN StringClose(s, 2) ELSE 0

\* ->\*|<<=|>>=
Ops3 == { <<"-", ">", "*">>, <<"<", "<", "=">>, <<">", ">", "=">> }

\* ->|\+\+|--|\.\*|<<|>>|[<>=!+\-*/%&^|]=|&&|\|\|
Ops2 ==
    { <<"-", ">">>, <<"+", "+">>, <<"-", "-">>, <<".", "*">>,
      <<"<", "<">>, <<">", ">">>, <<"&", "&">>, <<"|", "|">> }
    \cup { <<c, "=">> : c \in {"<", ">", "=", "!", "+", "-", "*", "/", "%", "&", "^", "|"} }

\* [()[\]{}.,:?+\-*/%~&^|=!]
Ops1 ==
    { <<c>> : c \in {"(", ")", "[", "]", "{", "}", ".", ",", ":", "?", "+",
                     "-", "*", "/", "%", "~", "&", "^", "|", "=", "!"} }

MatchOp3(s) == IF Len(s) >= 3 /\ SubSeq(s, 1, 3) \in Ops3 THEN 3 ELSE 0
MatchOp2(s) == IF Len(s) >= 2 /\ SubSeq(s, 1, 2) \in Ops2 THEN 2 ELSE 0
MatchOp1(s) == IF Len(s) >= 1 /\ SubSeq(s, 1, 1) \in Ops1 THEN 1 ELSE 0

\* An operator branch that tries the two-character operators before the
\* three-character ones.
MatchOperatorShortFirst(s) ==
    IF MatchOp2(s) > 0 THEN MatchOp2(s)
    ELSE IF MatchOp3(s) > 0 THEN MatchOp3(s)
    ELSE MatchOp1(s)

\* The three operator branches, in the order the if/elif chain tries them.
MatchOperator(s) ==
    IF MatchOp3(s) > 0 THEN MatchOp3(s)
    ELSE IF MatchOp2(s) > 0 THEN MatchOp2(s)
    ELSE MatchOp1(s)

\* The state of tokenize before its loop.
LexStart ==
    [i |-> 0, lineno |-> 1, linestart |-> 0, tokens |-> <<>>,
     starts |-> <<>>, pc |-> "scan", lexerr |-> <<>>]

\* columnno()
ColumnNo(st) == st.i - st.linestart + 1

\* A newline branch that resets the line start and forgets `lineno += 1`.
NewLineNoCount(st) == [st EXCEPT !.i = st.i + 1, !.linestart = st.i + 1]

\* The newline branch: i += 1; lineno += 1; linestart = i
NewLine(st) ==
    [st EXCEPT !.i = st.i + 1, !.lineno = st.lineno + 1, !.linestart = st.i + 1]

\* One iteration of the main loop (i < len(code)).
ScanIter(c, st) ==
    LET s == SubSeq(c, st.i + 1, Len(c))
        Emit(tag, str, n) ==
            [st EXCEPT !.tokens = Append(@, Token(tag, str, st.lineno, ColumnNo(st))),
                       !.starts = Append(@, st.i),
                       !.i = st.i + n]
        Skip(n) == [st EXCEPT !.i = st.i + n]
    IN  IF MatchPreprocessor(s) > 0
        THEN Emit("pp", SubSeq(s, 1, MatchPreprocessor(s)), MatchPreprocessor(s))
        ELSE IF MatchDirective(s) > 0
        THEN Emit("vd", SubSeq(s, 4, MatchDirective(s)), MatchDirective(s))
        ELSE IF MatchLineComment(s) > 0
        THEN Skip(MatchLineComment(s))
        ELSE IF MatchBlockOpen(s) > 0
        THEN [st EXCEPT !.i = st.i + 2, !.pc = "comment"]
        ELSE IF s[1] = "\n"
        THEN NewLine(st)
        ELSE IF MatchBlank(s) > 0
        THEN Skip(MatchBlank(s))
        ELSE IF MatchIdentifier(s) > 0
        THEN Emit("id", SubSeq(s, 1, MatchIdentifier(s)), MatchIdentifier(s))
        ELSE IF MatchNumber(s) > 0
        THEN Emit("num", SubSeq(s, 1, MatchNumber(s)), MatchNumber(s))
        ELSE IF MatchString(s) > 0
        THEN Emit("str", SubSeq(s, 1, MatchString(s)), MatchString(s))
        ELSE IF MatchOperator(s) > 0
        THEN Emit("mark", SubSeq(s, 1, MatchOperator(s)), MatchOperator(s))
        ELSE [st EXCEPT !.pc = "failed",
                        !.lexerr = <<[ch |-> s[1], lineno |-> st.lineno,
                                      columnno |-> ColumnNo(st)]>>]

\* A block-comment loop whose last branch forgets `i += 1`.
CommentIterStuck(c, st) ==
    LET s == SubSeq(c, st.i + 1, Len(c)) IN
    IF MatchBlockClose(s) > 0
    THEN [st EXCEPT !.i = st.i + 2, !.pc = "scan"]
    ELSE IF s[1] = "\n"
    THEN [st EXCEPT !.i = st.i + 1, !.lineno = st.lineno + 1,
                    !.linestart = st.i + 1]
    ELSE st

\* One iteration of the block-comment loop (i < len(code)).
CommentIter(c, st) ==
    LET s == SubSeq(c, st.i + 1, Len(c)) IN
    IF MatchBlockClose(s) > 0
    THEN [st EXCEPT !.i = st.i + 2, !.pc = "scan"]
    ELSE IF s[1] = "\n"
    THEN NewLine(st)
    ELSE [st EXCEPT !.i = st.i + 1]

\* One step of tokenize: a loop iteration or a loop exit.
LexIter(c, st) ==
    IF st.pc = "scan"
    THEN (IF st.i < Len(c) THEN ScanIter(c, st) ELSE [st EXCEPT !.pc = "done"])
    ELSE (IF st.i < Len(c) THEN CommentIter(c, st) ELSE [st EXCEPT !.pc = "scan"])

RECURSIVE LexRun(_, _)
LexRun(c, st) ==
    IF st.pc \in {"done", "failed"} THEN st ELSE LexRun(c, LexIter(c, st))

\* tokenize(source): the final state; .tokens is the returned list when
\* .pc = "done", and .lexerr holds the exception when .pc = "failed".
tokenize(source) == LexRun(Normalize(source), LexStart)

LexState ==
    [i |-> i, lineno |-> lineno, linestart |-> linestart, tokens |-> tokens,
     starts |-> starts, pc |-> pc, lexerr |-> lexerr]

LexBecomes(st) ==
    /\ i' = st.i
    /\ lineno' = st.lineno
    /\ linestart' = st.linestart
    /\ tokens' = st.tokens
    /\ starts' = st.starts
    /\ pc' = st.pc
    /\ lexerr' = st.lexerr
    /\ code' = code

\* All texts over alphabet A of at most n characters.
TextsUpTo(A, n) == UNION { [1..k -> A] : k \in 0..n }

\* The characters of the sources: comments, strings, lines
LexAlphabet == {"a", " ", "\n", "\r", "/", "*", "\"", "@", "#", "!"}
\* The characters of the sources: operators
OpAlphabet == {"a", "-", ">", "*", "=", ".", "/"}
\* The characters of the sources: the loops of the scan
LoopAlphabet == {"a", " ", "\n", "/", "*", "\"", "@"}

ValidateIdle ==
    /\ vtokens = <<>> /\ rules = <<>> /\ scope_level = 0
    /\ errors = <<>> /\ vpc = "idle"

LexInit(sources) ==
    /\ code \in { Normalize(src) : src \in sources }
    /\ i = LexStart.i
    /\ lineno = LexStart.lineno
    /\ linestart = LexStart.linestart
    /\ tokens = LexStart.tokens
    /\ starts = LexStart.starts
    /\ pc = LexStart.pc
    /\ lexerr = LexStart.lexerr
    /\ ValidateIdle

InitLex == LexInit(TextsUpTo(LexAlphabet, MaxCode))
InitOps == LexInit(TextsUpTo(OpAlphabet, MaxOpCode))
InitLoops == LexInit(TextsUpTo(LoopAlphabet, MaxCode))

\* An iteration of `while i < len(code)` outside a block comment.
ScanStep ==
    /\ pc = "scan" /\ i < Len(code)
    /\ LexBecomes(ScanIter(code, LexState))
    /\ UNCHANGED valvars

\* An iteration of the inner `while i < len(code)` of a block comment.
CommentStep ==
    /\ pc = "comment" /\ i < Len(code)
    /\ LexBecomes(CommentIter(code, LexState))
    /\ UNCHANGED valvars

\* The inner loop ends at the end of the text: the comment is not closed.
CommentExit ==
    /\ pc = "comment" /\ i >= Len(code)
    /\ LexBecomes(LexIter(code, LexState))
    /\ UNCHANGED valvars

\* The main loop ends: `return tokens`.
LexReturn ==
    /\ pc = "scan" /\ i >= Len(code)
    /\ LexBecomes(LexIter(code, LexState))
    /\ UNCHANGED valvars

NextLex == ScanStep \/ CommentStep \/ CommentExit \/ LexReturn

\* The characters of the sources: string literals and escapes
StringAlphabet == {"a", "\"", "\\", "/", "*"}
InitStrings == LexInit(TextsUpTo(StringAlphabet, MaxStrCode))

SpecLex == InitLex /\ [][NextLex]_vars
SpecStrings == InitStrings /\ [][NextLex]_vars
SpecOps == InitOps /\ [][NextLex]_vars
\* The interpreter runs the loop: a step that can be taken is taken.
SpecLexFair == InitLoops /\ [][NextLex]_vars /\ WF_vars(NextLex)

\* ------------------------------------- tokenize, then validate_tokens ----

\* The characters of the sources: braces in code, comments and directives
BraceAlphabet == {"{", "}", "/", "!", "*", "\n"}
InitPipeline == LexInit(TextsUpTo(BraceAlphabet, MaxCode))

\* validate_tokens is called on the list that tokenize returned.
PipelineCall ==
    /\ pc = "done" /\ vpc = "idle"
    /\ vpc' = ValidateStart.vpc
    /\ rules' = ValidateStart.rules
    /\ scope_level' = ValidateStart.scope_level
    /\ errors' = ValidateStart.errors
    /\ UNCHANGED vtokens
    /\ UNCHANGED lexvars

\* An iteration of `for token in tokens` on the next returned token.
PipelineStep ==
    /\ vpc = "loop" /\ Len(vtokens) < Len(tokens)
    /\ ValidateConsume(tokens[Len(vtokens) + 1])
    /\ UNCHANGED lexvars

\* The loop has consumed every token: `return errors`.
PipelineReturn ==
    /\ vpc = "loop" /\ Len(vtokens) = Len(tokens)
    /\ vpc' = "returned"
    /\ UNCHANGED <<vtokens, rules, scope_level, errors>>
    /\ UNCHANGED lexvars

NextPipeline == NextLex \/ PipelineCall \/ PipelineStep \/ PipelineReturn

SpecPipeline == InitPipeline /\ [][NextPipeline]_vars

\* ===================================================== src/main.py ======

\* \+\+|--|[-+*/%&|^=!<>]=|&&|(?:\|\|)|(<<|>>)=?|->\*?|\.\*|::\*?
\* The first alternative that matches gives the match.
MainMatchOperator(s) ==
    LET Two(a, b) == Len(s) >= 2 /\ s[1] = a /\ s[2] = b
        Opt(c) == IF Len(s) >= 3 /\ s[3] = c THEN 3 ELSE 2
    IN  IF Two("+", "+") THEN 2
        ELSE IF Two("-", "-") THEN 2
        ELSE IF Len(s) >= 2 /\ s[2] = "="
                /\ s[1] \in {"-", "+", "*", "/", "%", "&", "|", "^", "=", "!", "<", ">"}
        THEN 2
        ELSE IF Two("&", "&") THEN 2
        ELSE IF Two("|", "|") THEN 2
        ELSE IF Two("<", "<") \/ Two(">", ">") THEN Opt("=")
        ELSE IF Two("-", ">") THEN Opt("*")
        ELSE IF Two(".", "*") THEN 2
        ELSE IF Two(":", ":") THEN Opt("*")
        ELSE 0

\* One iteration of the loop of main.py's own tokenize (i < len(code)). Its
\* patterns for preprocessor lines, directives, line comments, blanks,
\* identifiers, numbers and strings are those of src/src/tokenize.py; it has
\* no block-comment branch, and its last branch emits the character.
MainScanIter(c, st) ==
    LET s == SubSeq(c, st.i + 1, Len(c))
        Emit(tag, str, n) ==
            [st EXCEPT !.tokens = Append(@, Token(tag, str, st.lineno, ColumnNo(st))),
                       !.starts = Append(@, st.i),
                       !.i = st.i + n]
        Skip(n) == [st EXCEPT !.i = st.i + n]
    IN  IF MatchPreprocessor(s) > 0
        THEN Emit("pp", SubSeq(s, 1, MatchPreprocessor(s)), MatchPreprocessor(s))
        ELSE IF MatchDirective(s) > 0
        THEN Emit("vd", SubSeq(s, 4, MatchDirective(s)), MatchDirective(s))
        ELSE IF MatchLineComment(s) > 0
        THEN Skip(MatchLineComment(s))
        ELSE IF s[1] = "\n"
        THEN NewLine(st)
        ELSE IF MatchBlank(s) > 0
        THEN Skip(MatchBlank(s))
        ELSE IF MatchIdentifier(s) > 0
        THEN Emit("id", SubSeq(s, 1, MatchIdentifier(s)), MatchIdentifier(s))
        ELSE IF MatchNumber(s) > 0
        THEN Emit("num", SubSeq(s, 1, MatchNumber(s)), MatchNumber(s))
        ELSE IF MatchString(s) > 0
        THEN Emit("str", SubSeq(s, 1, MatchString(s)), MatchString(s))
        ELSE IF MainMatchOperator(s) > 0
        THEN Emit("mark", SubSeq(s, 1, MainMatchOperator(s)), MainMatchOperator(s))
        ELSE Emit("mark", <<s[1]>>, 1)

\* One step of main.py's tokenize: a loop iteration or `return tokens`.
MainLexIter(c, st) ==
    IF st.i < Len(c) THEN MainScanIter(c, st) ELSE [st EXCEPT !.pc = "done"]

RECURSIVE MainLexRun(_, _)
MainLexRun(c, st) ==
    IF st.pc = "done" THEN st ELSE MainLexRun(c, MainLexIter(c, st))

\* tokenize(source) of main.py: the final state; .tokens is the returned list.
MainTokenize(source) == MainLexRun(Normalize(source), LexStart)

\* The characters of the sources read by main()
MainAlphabet == {"a", "@", "{", "\n", "/", "!"}
InitMain == LexInit(TextsUpTo(MainAlphabet, MaxCode))

\* An iteration of `while i < len(code)` of main.py's tokenize.
MainScanStep ==
    /\ pc = "scan" /\ i < Len(code)
    /\ LexBecomes(MainScanIter(code, LexState))
    /\ UNCHANGED valvars

\* The loop ends: `return tokens`.
MainLexReturn ==
    /\ pc = "scan" /\ i >= Len(code)
    /\ LexBecomes(MainLexIter(code, LexState))
    /\ UNCHANGED valvars

\* main(): tokens = tokenize(code), then validate_tokens(tokens); `tokens is
\* None` never holds, tokenize returns a list on every text.
NextMain ==
    MainScanStep \/ MainLexReturn \/ PipelineCall \/ PipelineStep \/ PipelineReturn

SpecMain == InitMain /\ [][NextMain]_vars

\* The characters of the sources given to both lexers
AgreeAlphabet == {"a", ":", "*", "<", "=", "-", ">", "/"}
InitAgree == LexInit(TextsUpTo(AgreeAlphabet, MaxCode))

SpecAgree == InitAgree /\ [][NextLex]_vars

\* ------------------------------------------------------ claims on tokenize

\* The line of offset o of text c: 1 plus the newlines before it.
TrueLine(c, o) == 1 + Cardinality({ p \in 1..o : c[p] = "\n" })

\* The 1-based column of offset o of text c within its line.
TrueColumn(c, o) ==
    LET nl == { p \in 1..o : c[p] = "\n" } IN
    IF nl = {} THEN o + 1
    ELSE o - (CHOOSE p \in nl : \A q \in nl : q <= p) + 1

\* The text from the cursor on.
SubCode == SubSeq(code, i + 1, Len(code))

\* One of the patterns of the priority list matches the text s.
SomePattern(s) ==
    \/ MatchPreprocessor(s) > 0 \/ MatchDirective(s) > 0
    \/ MatchLineComment(s) > 0 \/ MatchBlockOpen(s) > 0
    \/ (Len(s) >= 1 /\ s[1] = "\n") \/ MatchBlank(s) > 0
    \/ MatchIdentifier(s) > 0 \/ MatchNumber(s) > 0 \/ MatchString(s) > 0
    \/ MatchOp3(s) > 0 \/ MatchOp2(s) > 0 \/ MatchOp1(s) > 0

\* C5: tokenize fails with exactly one error, which carries the offending
\* character and its 1-based line and column in the source, and it fails
\* only at a cursor position where no pattern matches; a run that returns
\* raised no error.
C5_LexFailureContract ==
    /\ pc = "failed" =>
         /\ i < Len(code)
         /\ ~ SomePattern(SubCode)
         /\ lexerr = <<[ch |-> code[i + 1],
                        lineno |-> TrueLine(code, i),
                        columnno |-> TrueColumn(code, i)]>>
    /\ pc # "failed" => lexerr = <<>>

\* C6: on success every token's lineno is 1 plus the number of newlines
\* before its first character, and its columnno is the 1-based offset of
\* that character within its line.
C6_TokenPositions ==
    pc = "done" =>
        \A k \in 1..Len(tokens) :
            /\ tokens[k].lineno = TrueLine(code, starts[k])
            /\ tokens[k].columnno = TrueColumn(code, starts[k])

\* A line comment starts the text s: `//` that is not the marker `//!`.
LineCommentStart(s) ==
    /\ Len(s) >= 2 /\ SubSeq(s, 1, 2) = <<"/", "/">>
    /\ (Len(s) >= 3 => s[3] # "!")

\* C7: no token is cut at a blank, at a newline, at the start of a block
\* comment or at the start of a line comment, however short the comment.
C7_NonCodeYieldsNoToken ==
    \A k \in 1..Len(tokens) :
        LET s == SubSeq(code, starts[k] + 1, Len(code)) IN
        /\ s[1] \notin BlankChars \cup {"\n"}
        /\ MatchBlockOpen(s) = 0
        /\ ~ LineCommentStart(s)

\* The operators of the operator set that start the text s.
OperatorPrefixes(s) ==
    { op \in Ops3 \cup Ops2 \cup Ops1 :
        Len(op) <= Len(s) /\ SubSeq(s, 1, Len(op)) = op }

LongestOperator(s) ==
    CHOOSE op \in OperatorPrefixes(s) :
        \A other \in OperatorPrefixes(s) : Len(other) <= Len(op)

\* A pattern tried before the operators matches the text s.
EarlierPattern(s) ==
    \/ MatchPreprocessor(s) > 0 \/ MatchDirective(s) > 0
    \/ MatchLineComment(s) > 0 \/ MatchBlockOpen(s) > 0
    \/ (Len(s) >= 1 /\ s[1] = "\n") \/ MatchBlank(s) > 0
    \/ MatchIdentifier(s) > 0 \/ MatchNumber(s) > 0 \/ MatchString(s) > 0

\* C8: an operator token is the longest operator of the operator set that
\* starts the remaining text, and where no earlier pattern matches and some
\* operator starts the remaining text, that operator token is emitted.
C8_LongestMatchOperators ==
    [][ (pc = "scan" /\ i < Len(code)) =>
          /\ ( /\ Len(tokens') = Len(tokens) + 1
               /\ tokens'[Len(tokens')].tag = "mark" )
             => /\ OperatorPrefixes(SubCode) # {}
                /\ tokens'[Len(tokens')].str = LongestOperator(SubCode)
                /\ i' = i + Len(LongestOperator(SubCode))
          /\ (~ EarlierPattern(SubCode) /\ OperatorPrefixes(SubCode) # {})
             => /\ Len(tokens') = Len(tokens) + 1
                /\ tokens'[Len(tokens')].tag = "mark"
      ]_vars

\* `a->*a` has been cut into identifier, `->*`, identifier.
C8_Witness ==
    /\ pc = "done"
    /\ code = <<"a", "-", ">", "*", "a">>
    /\ Len(tokens) = 3
    /\ tokens[1].tag = "id"
    /\ tokens[2] = Token("mark", <<"-", ">", "*">>, 1, 2)
    /\ tokens[3] = Token("id", <<"a">>, 1, 5)

\* The tags and texts of a token list.
TagsTexts(toks) == [k \in 1..Len(toks) |-> <<toks[k].tag, toks[k].str>>]

\* The source width of token k: a directive token lost its 3-character marker.
TokenWidth(t) == IF t.tag = "vd" THEN Len(t.str) + 3 ELSE Len(t.str)

\* The text c with piece put in at offset o.
InsertAt(c, o, piece) == SubSeq(c, 1, o) \o piece \o SubSeq(c, o + 1, Len(c))

\* Non-code that can follow a token at offset o: blanks and a block comment
\* anywhere, a line comment where the line ends.
NonCodePieces(o) ==
    { <<" ">>, <<"\t">>, <<"/", "*", "*", "/">>, <<"/", "*", "a", "*", "/">> }
    \cup (IF o = Len(code) \/ code[o + 1] = "\n"
          THEN { <<"/", "/">>, <<"/", "/", "a">> } ELSE {})

\* C9: putting a line comment, a block comment or blanks after a token
\* leaves the tags and texts of the returned tokens as they are.  (Not
\* tried after a token that ends in `/`, which would join the comment
\* marker.)
C9_NonCodeIdempotence ==
    pc = "done" =>
        \A k \in 1..Len(tokens) :
            LET o == starts[k] + TokenWidth(tokens[k]) IN
            \A piece \in (IF code[o] = "/" THEN {} ELSE NonCodePieces(o)) :
                LET r == LexRun(InsertAt(code, o, piece), LexStart) IN
                /\ r.pc = "done"
                /\ TagsTexts(r.tokens) = TagsTexts(tokens)

\* The text opens a block comment that is never closed.
UnterminatedComment ==
    /\ Len(code) >= 2 /\ SubSeq(code, 1, 2) = <<"/", "*">>
    /\ \A p \in 3..(Len(code) - 1) : SubSeq(code, p, p + 1) # <<"*", "/">>

\* C10: every iteration of the main loop and of the block-comment loop moves
\* the cursor forward or raises, so the scan ends; inside a block comment no
\* token is added and nothing is raised, and a text that is one unterminated
\* block comment returns no token.
C10_Termination ==
    /\ [][ /\ (pc \in {"scan", "comment"} /\ i < Len(code))
              => ((i' > i /\ i' <= Len(code)) \/ pc' = "failed")
           /\ pc = "comment" => (tokens' = tokens /\ pc' # "failed")
           /\ (pc = "comment" /\ i >= Len(code)) => (pc' = "scan" /\ i' = i)
           /\ (pc = "scan" /\ i >= Len(code)) => (pc' = "done" /\ tokens' = tokens)
         ]_vars
    /\ <>(pc \in {"done", "failed"})
    /\ [](pc = "done" /\ UnterminatedComment => tokens = <<>>)

\* An unterminated block comment holding a newline has been scanned to the
\* end of the text and tokenize has returned.
C10_Witness ==
    /\ pc = "done"
    /\ UnterminatedComment
    /\ Len(code) = 4
    /\ lineno = 2
    /\ tokens = <<>>

\* ----------------------------------------------- claims on validate_tokens

IsOpen(t) == t.tag = "mark" /\ t.str = <<"{">>
IsClose(t) == t.tag = "mark" /\ t.str = <<"}">>

\* Brace nesting of the first n tokens, by matching `{` and `}` operator
\* tokens; a `}` that matches no `{` opens or closes nothing.
RECURSIVE BlockDepth(_, _)
BlockDepth(toks, n) ==
    IF n = 0 THEN 0
    ELSE LET d == BlockDepth(toks, n - 1) IN
         IF IsOpen(toks[n]) THEN d + 1
         ELSE IF IsClose(toks[n]) THEN (IF d > 0 THEN d - 1 ELSE 0)
         ELSE d

\* The arguments a directive token declares: `unused <arg>[, <arg>]*`.
DeclaredArgs(t) ==
    IF t.tag = "vd" /\ Len(SplitCommand(t.str)) = 2
                    /\ SplitCommand(t.str)[1] = UnusedName
    THEN SplitArgs(SplitCommand(t.str)[2])
    ELSE <<>>

\* The block that encloses token p is still open just before token q.
ScopeOpen(p, q) ==
    \A c \in (p + 1)..(q - 1) :
        BlockDepth(vtokens, c) >= BlockDepth(vtokens, p - 1)

\* The declarations (directive p, argument j) that match token q.
Declarations(q) ==
    { pj \in (1..(q - 1)) \X (1..3) :
        /\ pj[2] <= Len(DeclaredArgs(vtokens[pj[1]]))
        /\ DeclaredArgs(vtokens[pj[1]])[pj[2]] = vtokens[q].str }

\* ... those declared inside a brace block that is still open at q
InBlockRulesAt(q) ==
    { pj \in Declarations(q) :
        /\ BlockDepth(vtokens, pj[1] - 1) >= 1
        /\ ScopeOpen(pj[1], q) }

\* ... those declared outside every brace block
TopRulesAt(q) ==
    { pj \in Declarations(q) : BlockDepth(vtokens, pj[1] - 1) = 0 }

\* The number of errors emitted for token q.
ErrorsAt(q) ==
    Cardinality({ e \in 1..Len(errors) : errors[e].token = vtokens[q] })

\* C1: a rule declared by an `unused` directive inside a brace block fires on
\* every later identifier with its text up to the `}` that closes the block,
\* nested blocks included, and on no token after that `}`: the errors for an
\* identifier are at least the in-block declarations in scope, and at most
\* those plus the top-level declarations.
C1_ScopeLifetime ==
    \A q \in 1..Len(vtokens) :
        vtokens[q].tag = "id" =>
            /\ ErrorsAt(q) >= Cardinality(InBlockRulesAt(q))
            /\ ErrorsAt(q) <= Cardinality(InBlockRulesAt(q))
                              + Cardinality(TopRulesAt(q))

\* C2: validate_tokens never raises, whatever the token sequence.
C2_NeverRaises == vpc # "raised"

\* A directive of n >= 2 arguments as n single-argument directives.
RECURSIVE SingleDirectives(_, _)
SingleDirectives(t, args) ==
    IF args = <<>> THEN <<>>
    ELSE <<[t EXCEPT !.str = UnusedName \o <<" ">> \o Head(args)]>>
         \o SingleDirectives(t, Tail(args))

RECURSIVE ExpandDirectives(_)
ExpandDirectives(toks) ==
    IF toks = <<>> THEN <<>>
    ELSE (IF Len(DeclaredArgs(Head(toks))) >= 2
          THEN SingleDirectives(Head(toks), DeclaredArgs(Head(toks)))
          ELSE <<Head(toks)>>)
         \o ExpandDirectives(Tail(toks))

\* C3: a directive `unused a1, ..., an` adds one rule per argument, in order,
\* at the current depth, and the errors of the run are those of the run in
\* which every such directive is written as n single-argument directives.
C3_OneRulePerArgument ==
    /\ vpc = "loop" /\ vtokens # <<>>
       /\ Len(DeclaredArgs(vtokens[Len(vtokens)])) >= 1
       /\ ~ IsOpen(vtokens[Len(vtokens)]) /\ ~ IsClose(vtokens[Len(vtokens)])
       => LET args == DeclaredArgs(vtokens[Len(vtokens)])
              n == Len(args)
          IN  /\ Len(rules) >= n
              /\ \A j \in 1..n :
                   rules[Len(rules) - n + j] =
                       ValidateRule(scope_level, "id", args[j], "unused_message")
    /\ vpc # "raised" =>
           errors = validate_tokens(ExpandDirectives(vtokens)).errors

\* The error list of k copies of e.
Copies(k, e) == [j \in 1..k |-> e]

\* C4: an identifier token scanned while k rules with its text are active
\* appends exactly k errors for that token, one per matching rule, in
\* rule-list (declaration) order, and nothing else.
C4_MultiRuleFiring ==
    [][ ( /\ vpc = "loop" /\ vpc' = "loop"
          /\ Len(vtokens') = Len(vtokens) + 1
          /\ vtokens'[Len(vtokens')].tag = "id" )
        => LET t == vtokens'[Len(vtokens')]
               k == Cardinality({ r \in 1..Len(rules) :
                                    rules[r].tag = "id" /\ rules[r].str = t.str })
           IN  /\ errors' = errors \o Copies(k, ValidateError(unused_message(t), t))
               /\ rules' = rules
      ]_vars

\* Two rules for `x`, declared at two depths, have both fired on one token.
C4_Witness ==
    /\ vtokens # <<>>
    /\ vtokens[Len(vtokens)].tag = "id"
    /\ \E a, b \in 1..Len(rules) :
         /\ a < b
         /\ rules[a].str = vtokens[Len(vtokens)].str
         /\ rules[b].str = vtokens[Len(vtokens)].str
         /\ rules[a].scope_level < rules[b].scope_level
    /\ ErrorsAt(Len(vtokens)) = 2

\* The token the loop consumed last.
LastToken == vtokens[Len(vtokens)]

\* C11: a `}` token decrements the depth by one and leaves exactly the rules
\* whose scope_level is at most the new depth, in their order; it adds no
\* error.  So a rule of depth d outlives a `}` that leaves depth >= d and is
\* dropped by one that brings the depth below d.
C11_PurgeOnClose ==
    [][ ( /\ vpc = "loop" /\ Len(vtokens') = Len(vtokens) + 1
          /\ vtokens'[Len(vtokens')].str = <<"}">> )
        => /\ scope_level' = scope_level - 1
           /\ rules' = SelectSeq(rules, LAMBDA r : r.scope_level <= scope_level - 1)
           /\ \A k \in 1..Len(rules) :
                 (rules[k].scope_level <= scope_level')
                 <=> (\E j \in 1..Len(rules') : rules'[j] = rules[k])
           /\ errors' = errors
           /\ vpc' = "loop"
      ]_vars

\* `unused x`, `{`, `x`, `}`, `x`: the rule of depth 0 outlived the block and
\* both identifiers gave an error.
C11_Witness ==
    /\ Len(vtokens) = 5
    /\ DeclaredArgs(vtokens[1]) = <<<<"x">>>>
    /\ IsOpen(vtokens[2]) /\ IsClose(vtokens[4])
    /\ vtokens[3].tag = "id" /\ vtokens[5].tag = "id"
    /\ scope_level = 0
    /\ Len(rules) = 1
    /\ Len(errors) = 2
    /\ errors[1].token = vtokens[3] /\ errors[2].token = vtokens[5]

\* C19: every active rule has scope_level at most the depth counter, also
\* while the counter is negative.
C19_RuleDepthInvariant ==
    \A k \in 1..Len(rules) : rules[k].scope_level <= scope_level

\* After more `}` than `{` a rule is active below depth 0.
C19_Witness ==
    /\ scope_level < 0
    /\ rules # <<>>
    /\ rules[1].scope_level = scope_level
    /\ \E k \in 1..Len(vtokens) : IsClose(vtokens[k])

\* The number of active rules with the text of token t.
RulesFor(t) == Cardinality({ r \in 1..Len(rules) : rules[r].str = t.str })

\* C12: every error carries a consumed token (the offending one) of tag id,
\* with the message "Variable '<text>' cannot be used."; errors stand in the
\* order of their tokens; a step adds errors only for the token it consumes,
\* one per active rule with the token's text (at least one such rule is
\* active), and none for a token of another tag.
C12_ErrorSoundness ==
    /\ [](\A k \in 1..Len(errors) :
            LET t == errors[k].token IN
            /\ t.tag = "id"
            /\ t.lineno \in 1..Len(vtokens) /\ vtokens[t.lineno] = t
            /\ errors[k].message = <<"Variable '", t.str, "' cannot be used.">>
            /\ \A j \in 1..(k - 1) : errors[j].token.lineno <= t.lineno)
    /\ [][ errors' # errors =>
             /\ Len(vtokens') = Len(vtokens) + 1
             /\ Len(errors') > Len(errors)
             /\ SubSeq(errors', 1, Len(errors)) = errors
             /\ LET t == vtokens'[Len(vtokens')] IN
                /\ t.tag = "id"
                /\ RulesFor(t) >= 1
                /\ Len(errors') = Len(errors) + RulesFor(t)
                /\ \A k \in (Len(errors) + 1)..Len(errors') : errors'[k].token = t
         ]_vars
    /\ [][ ( /\ Len(vtokens') = Len(vtokens) + 1
             /\ vtokens'[Len(vtokens')].tag # "id" )
           => errors' = errors ]_vars

\* `unused x`, then a string-tagged `x` (no error), then the identifier `x`
\* twice (one error each, in that order).
C12_Witness ==
    /\ Len(vtokens) = 4
    /\ vtokens[2].tag = "str" /\ vtokens[2].str = <<"x">>
    /\ vtokens[3].tag = "id" /\ vtokens[4].tag = "id"
    /\ Len(rules) = 1 /\ rules[1].str = <<"x">>
    /\ Len(errors) = 2
    /\ errors[1].token = vtokens[3] /\ errors[2].token = vtokens[4]

\* The state of validate_tokens after the tokens before the last one.
BeforeLast == ValidateRun(ValidateStart, SubSeq(vtokens, 1, Len(vtokens) - 1))

\* C13: a directive token whose command name is not `unused` leaves the rule
\* list, the depth and the error list as they were and raises nothing.
C13_UnknownDirectiveNoEffect ==
    ( /\ vtokens # <<>>
      /\ LastToken.tag = "vd"
      /\ SplitCommand(LastToken.str)[1] # UnusedName )
    => /\ vpc # "raised"
       /\ rules = BeforeLast.rules
       /\ scope_level = BeforeLast.scope_level
       /\ errors = BeforeLast.errors

\* A string literal by its grammar, from index p of s on: the index of the
\* first double-quote that no backslash escapes, 0 when there is none.
RECURSIVE UnescapedQuote(_, _)
UnescapedQuote(s, p) ==
    IF p > Len(s) THEN 0
    ELSE IF s[p] = "\"" THEN p
    ELSE IF s[p] = "\\" THEN UnescapedQuote(s, p + 2)
    ELSE UnescapedQuote(s, p + 1)

\* C15: a token cut at a double-quote is a string token that runs to the
\* first closing double-quote that is not backslash-escaped, and the scan
\* does not fail at a double-quote that has such a closing quote.
C15_StringEscapes ==
    /\ \A k \in 1..Len(tokens) :
         LET s == SubSeq(code, starts[k] + 1, Len(code)) IN
         (s[1] = "\"" /\ UnescapedQuote(s, 2) > 0) =>
            /\ tokens[k].tag = "str"
            /\ tokens[k].str = SubSeq(s, 1, UnescapedQuote(s, 2))
    /\ (pc = "failed" /\ code[i + 1] = "\"") => UnescapedQuote(SubCode, 2) = 0

\* C16: the scan never fails at a `#`, and a token cut at a `#` is a
\* preprocessor token whose text runs up to, not including, the next newline
\* or the end of the text.
C16_PreprocessorLines ==
    /\ pc = "failed" => code[i + 1] # "#"
    /\ \A k \in 1..Len(tokens) :
         code[starts[k] + 1] = "#" =>
            /\ tokens[k].tag = "pp"
            /\ tokens[k].str =
                 SubSeq(code, starts[k] + 1,
                        starts[k] + 1 + RunNotIn(code, starts[k] + 2, {"\n"}))

\* C17: in a returned token list every token is the source text at its
\* offset, offsets increase strictly without overlap, lineno never decreases
\* and columnno increases strictly between two tokens of one lineno.
C17_TokenOrder ==
    pc = "done" =>
        /\ Len(starts) = Len(tokens)
        /\ \A k \in 1..Len(tokens) :
             /\ starts[k] + TokenWidth(tokens[k]) <= Len(code)
             /\ tokens[k].str =
                  SubSeq(code, starts[k] + 1 + (TokenWidth(tokens[k]) - Len(tokens[k].str)),
                         starts[k] + TokenWidth(tokens[k]))
        /\ \A k \in 1..(Len(tokens) - 1) :
             /\ starts[k] < starts[k + 1]
             /\ starts[k] + TokenWidth(tokens[k]) <= starts[k + 1]
             /\ tokens[k].lineno <= tokens[k + 1].lineno
             /\ tokens[k].lineno = tokens[k + 1].lineno
                => tokens[k].columnno < tokens[k + 1].columnno

\* Two tokens of one line and a third on the next line have been returned.
C17_Witness ==
    /\ pc = "done"
    /\ Len(tokens) = 3
    /\ tokens[1].lineno = 1 /\ tokens[2].lineno = 1
    /\ tokens[1].columnno < tokens[2].columnno
    /\ tokens[3].lineno = 2 /\ tokens[3].columnno = 1

\* C14: in tokenize followed by validate_tokens, after any prefix of the
\* token sequence the depth counter is the number of `{` operator tokens
\* minus the number of `}` operator tokens of that prefix.
C14_DepthFollowsCodeBraces ==
    vpc \in {"loop", "returned"} =>
        scope_level = Cardinality({ k \in 1..Len(vtokens) : IsOpen(vtokens[k]) })
                      - Cardinality({ k \in 1..Len(vtokens) : IsClose(vtokens[k]) })

\* C18: when the cursor of the driver's lexer stands at a character where no
\* pattern of the lexical grammar matches, validate_tokens is never called.
C18_FailFast ==
    (\E k \in 1..Len(tokens) : ~SomePattern(SubSeq(code, starts[k] + 1, Len(code))))
        => vpc = "idle"

\* The text c holds the opening of a block comment.
HasBlockOpen(c) == \E p \in 1..(Len(c) - 1) : c[p] = "/" /\ c[p + 1] = "*"

\* C20: on a text without block comment on which tokenize of
\* src/src/tokenize.py returns, tokenize of src/main.py returns the same
\* token list.
C20_LexersAgree ==
    (pc = "done" /\ ~HasBlockOpen(code))
        => MainLexRun(code, LexStart).tokens = tokens

====
